---- MODULE Spec2Model ----
(***************************************************************************)
(* RepoSense: the file selector (src/lib/fileSelector.ts, selectKeyFiles),  *)
(* the chunker (chunkContent) and the HuggingFace client                   *)
(* (callHuggingFaceAPI, analyzeWithHuggingFace).                           *)
(*                                                                         *)
(* A path is the sequence of its slash-separated segments, so that         *)
(* path.split('/') is the path itself, the base name is its last segment   *)
(* and the depth is its length.  A string is a sequence of pieces          *)
(* [src, len]: "the first len characters of the text named src"; the text  *)
(* of an input file is named by the file's path.  substring(0, n), + and   *)
(* .length are computed on pieces.                                         *)
(***************************************************************************)
EXTENDS Integers, Sequences, FiniteSets, TLC

\* ------------------------------------------------------------------------
\* Program constants
\* ------------------------------------------------------------------------
MAX_FILE_SIZE == 100 * 1024

MAX_TOTAL_CONTENT == 50 * 1024

PRIORITY_1_FILES ==
  {"README.md", "README.txt", "README", "CONTRIBUTING.md",
   "LICENSE", "LICENSE.md", "LICENSE.txt"}

PRIORITY_2_PATTERNS ==
  {"package.json", "tsconfig.json", "next.config.js", "next.config.mjs",
   "tailwind.config.js", "tailwind.config.ts", ".eslintrc", ".eslintrc.js",
   ".eslintrc.json", "eslint.config.js", ".prettierrc", ".prettierrc.js",
   ".prettierrc.json", "jest.config.js", "jest.config.ts", "Dockerfile",
   "docker-compose.yml", ".env.example", ".gitignore", "vite.config.js",
   "vite.config.ts", "webpack.config.js"}

ENTRY_POINT_PATTERNS ==
  {"index.ts", "index.js", "main.ts", "main.js",
   "app.ts", "app.js", "server.ts", "server.js"}

\* '/src/', '/lib/', ... : the directory names, in priority order
PRIORITY_DIRECTORIES == <<"src", "lib", "app", "components", "pages", "api">>

\* the text '\n... (truncated)' and its length
TruncationMarker == <<"\n... (truncated)">>

MarkerLength == 16

\* "Add up to 20 source files"
SourceFileLimit == 20

\* "if (selectedFiles.length < 5)"
FallbackThreshold == 5

\* ".slice(0, 20)"
RootFileLimit == 20

\* ------------------------------------------------------------------------
\* Strings as sequences of pieces
\* ------------------------------------------------------------------------
RECURSIVE StrLength(_)
StrLength(s) == IF s = << >> THEN 0 ELSE Head(s).len + StrLength(Tail(s))

\* s.substring(0, n)
RECURSIVE Substring0(_, _)
Substring0(s, n) ==
  IF s = << >> \/ n <= 0 THEN << >>
  ELSE IF Head(s).len <= n
       THEN <<Head(s)>> \o Substring0(Tail(s), n - Head(s).len)
       ELSE <<[src |-> Head(s).src, len |-> n]>>

MarkerText == <<[src |-> TruncationMarker, len |-> MarkerLength]>>

\* ------------------------------------------------------------------------
\* Paths
\* ------------------------------------------------------------------------
\* path.split('/').pop() || ''
FileName(path) == IF Len(path) = 0 THEN "" ELSE path[Len(path)]

\* path.split('/').length
Depth(path) == Len(path)

\* path.includes('/' + d + '/')
IncludesDir(path, d) == \E k \in 2..(Len(path) - 1) : path[k] = d

\* PRIORITY_DIRECTORIES.findIndex(dir => path.includes(dir)), 0-based, -1 if none
DirIndex(path) ==
  LET hits == {k \in 1..Len(PRIORITY_DIRECTORIES) :
                 IncludesDir(path, PRIORITY_DIRECTORIES[k])}
  IN IF hits = {} THEN -1
     ELSE (CHOOSE k \in hits : \A m \in hits : k <= m) - 1

\* ------------------------------------------------------------------------
\* Array helpers
\* ------------------------------------------------------------------------
\* Array.prototype.filter
RECURSIVE FilterSeq(_, _)
FilterSeq(s, keep) ==
  IF s = << >> THEN << >>
  ELSE IF Head(s) \in keep THEN <<Head(s)>> \o FilterSeq(Tail(s), keep)
       ELSE FilterSeq(Tail(s), keep)

\* Array.prototype.sort with a comparator a.key - b.key (stable):
\* key is the sequence of the elements' keys
StableSort(s, key) ==
  LET n == Len(s)
      pos(j) == 1 + Cardinality({m \in 1..n :
                     key[m] < key[j] \/ (key[m] = key[j] /\ m < j)})
  IN [p \in 1..n |-> s[CHOOSE j \in 1..n : pos(j) = p]]

\* Array.prototype.slice(0, n)
Slice0(s, n) == IF Len(s) <= n THEN s ELSE SubSeq(s, 1, n)

\* mutant of HasPath: the already-added test never matches
HasPathNever(sel, path) == FALSE

\* selectedFiles.some(sf => sf.path === path)
HasPath(sel, path) == \E k \in 1..Len(sel) : sel[k].path = path

Range(s) == {s[k] : k \in 1..Len(s)}

\* ------------------------------------------------------------------------
\* Bounds of the checked inputs
\* ------------------------------------------------------------------------
\* longest input drawn freely from PathUniverse x Kinds
MaxFiles == 2

\* most source-directory files in an input of the many-sources family
MaxSrc == 22

\* most root files matching no tier in an input of the many-root-files family
MaxRoot == 22

\* ------------------------------------------------------------------------
\* Inputs: FileObject records {path, content, size}
\* ------------------------------------------------------------------------
\* the FileObject the fetcher builds: content is the decoded text (len
\* characters), size is the byte size GitHub reports for the item
FileObject(path, size, len) ==
  [path    |-> path,
   content |-> IF len = 0 THEN << >> ELSE <<[src |-> path, len |-> len]>>,
   size    |-> size]

PathUniverse ==
  {<<"README.md">>, <<"LICENSE">>, <<"package.json">>, <<"index.js">>,
   <<"main.js">>, <<"src", "app", "index.js">>, <<"pkg", "src", "util.ts">>,
   <<"notes.txt">>, <<"todo.txt">>, <<"docs", "guide", "deep.txt">>}

\* <<size, content length>>: small; half the budget and more; over the
\* budget but not over the per-file cap; over the per-file cap with text of
\* that length; over the per-file cap in bytes with a shorter decoded text
Kinds ==
  {<<1000, 1000>>, <<30000, 30000>>, <<60000, 60000>>,
   <<150000, 150000>>, <<150000, 40000>>}

SmallInputs ==
  LET F == {FileObject(p, k[1], k[2]) : p \in PathUniverse, k \in Kinds}
  IN UNION {{s \in [1..n -> F] :
               \A a, b \in 1..n : a # b => s[a].path # s[b].path}
            : n \in 0..MaxFiles}

\* names of the files of the many-sources family
SrcNames ==
  <<"f01.ts", "f02.ts", "f03.ts", "f04.ts", "f05.ts", "f06.ts", "f07.ts",
    "f08.ts", "f09.ts", "f10.ts", "f11.ts", "f12.ts", "f13.ts", "f14.ts",
    "f15.ts", "f16.ts", "f17.ts", "f18.ts", "f19.ts", "f20.ts", "f21.ts",
    "f22.ts", "f23.ts", "f24.ts", "f25.ts", "f26.ts">>

\* an optional entry point inside a source directory, then n files spread
\* over pkg/lib and pkg/src, all of one size
ManySourceInputs ==
  LET src(k, sz) ==
        FileObject(<<"pkg", IF k % 2 = 1 THEN "lib" ELSE "src", SrcNames[k]>>, sz, sz)
      heads == {<< >>, <<FileObject(<<"pkg", "src", "index.js">>, 1000, 1000)>>}
  IN {h \o [k \in 1..n |-> src(k, sz)] :
        h \in heads, n \in 0..MaxSrc, sz \in {1000, 3000}}

\* documentation files at the repository root and one other root file, each
\* absent, small, or over the budget
RootDocInputs ==
  LET paths == <<<<"README.md">>, <<"CONTRIBUTING.md">>, <<"LICENSE">>,
                 <<"LICENSE.md">>, <<"LICENSE.txt">>, <<"README">>,
                 <<"notes.txt">>>>
      n == Len(paths)
      pick(c) == FilterSeq([k \in 1..n |-> k], {k \in 1..n : c[k] # 0})
      build(c) == LET ks == pick(c)
                  IN [j \in 1..Len(ks) |->
                        FileObject(paths[ks[j]], c[ks[j]], c[ks[j]])]
  IN {build(c) : c \in [1..n -> {0, 1000, 60000}]}

\* names of the files of the many-root-files family
RootNames ==
  <<"r01.txt", "r02.txt", "r03.txt", "r04.txt", "r05.txt", "r06.txt",
    "r07.txt", "r08.txt", "r09.txt", "r10.txt", "r11.txt", "r12.txt",
    "r13.txt", "r14.txt", "r15.txt", "r16.txt", "r17.txt", "r18.txt",
    "r19.txt", "r20.txt", "r21.txt", "r22.txt", "r23.txt", "r24.txt">>

\* n root files that match no tier, listed in descending name order, all of
\* one size, after no, one or five documentation files
ManyRootInputs ==
  LET doc(name) == FileObject(<<name>>, 1000, 1000)
      heads == {<< >>, <<doc("README.md")>>,
                <<doc("README.md"), doc("LICENSE"), doc("LICENSE.md"),
                  doc("CONTRIBUTING.md"), doc("README")>>}
  IN {h \o [k \in 1..n |-> FileObject(<<RootNames[n + 1 - k]>>, sz, sz)] :
        h \in heads, n \in 0..MaxRoot, sz \in {1000, 3000}}

\* two documentation files, a configuration file and an entry point at the
\* root, each absent, small, filling the budget together with a small one
\* (1000 + 50200 = MAX_TOTAL_CONTENT), or over the budget
TierMixInputs ==
  LET paths == <<<<"README.md">>, <<"LICENSE">>, <<"package.json">>,
                 <<"index.js">>>>
      n == Len(paths)
      pick(c) == FilterSeq([k \in 1..n |-> k], {k \in 1..n : c[k] # 0})
      build(c) == LET ks == pick(c)
                  IN [j \in 1..Len(ks) |->
                        FileObject(paths[ks[j]], c[ks[j]], c[ks[j]])]
  IN {build(c) : c \in [1..n -> {0, 1000, 50200, 60000}]}

Inputs ==
  SmallInputs \cup ManySourceInputs \cup RootDocInputs \cup ManyRootInputs
    \cup TierMixInputs

\* localeCompare on the paths of depth <= 2 that the inputs use
CollationOrder ==
  <<<<"CONTRIBUTING.md">>, <<"index.js">>, <<"LICENSE">>, <<"LICENSE.md">>,
    <<"LICENSE.txt">>, <<"main.js">>, <<"notes.txt">>, <<"package.json">>>>
  \o [k \in 1..Len(RootNames) |-> <<RootNames[k]>>]
  \o <<<<"README">>, <<"README.md">>, <<"todo.txt">>>>

LocaleRank(path) ==
  CHOOSE k \in 1..Len(CollationOrder) : CollationOrder[k] = path

\* ------------------------------------------------------------------------
\* selectKeyFiles
\* ------------------------------------------------------------------------
VARIABLES
  files,            \* the argument of selectKeyFiles
  selectedFiles,    \* const selectedFiles: FileObject[]
  totalSize,        \* let totalSize
  sourceFileCount,  \* let sourceFileCount
  pc,               \* the pass being run: "p1" "p2" "p3" "p4" "fb" "done"
  cand,             \* the candidate array of the pass (priority1, ..., rootFiles)
  idx,              \* position of the for-of loop in cand
  calls,            \* the addFile calls made so far, with their outcomes
  run,              \* 1: selectKeyFiles(files), 2: selectKeyFiles of that result
  firstInput,       \* argument of run 1
  firstResult,      \* result of run 1
  chunks,           \* chunkContent: const chunks; analyzeWithHuggingFace: its argument
  currentChunk,     \* chunkContent: let currentChunk
  currentFileCount, \* chunkContent: let currentFileCount
  currentSize,      \* chunkContent: let currentSize
  responses,        \* analyzeWithHuggingFace: const responses
  apiKey,           \* whether process.env.HUGGINGFACE_API_KEY is set
  requests,         \* the axios.post requests sent so far, with their outcomes
  attempts          \* the callHuggingFaceAPI calls finished so far

\* the variables of chunkContent and of the HuggingFace client
chunkVars == <<chunks, currentChunk, currentFileCount, currentSize>>

apiVars == <<responses, apiKey, requests, attempts>>

\* the variables of selectKeyFiles other than files, pc and idx
selectorVars == <<selectedFiles, totalSize, sourceFileCount, cand, calls,
                  run, firstInput, firstResult>>

vars == <<files, selectedFiles, totalSize, sourceFileCount, pc, cand, idx,
          calls, run, firstInput, firstResult, chunks, currentChunk,
          currentFileCount, currentSize, responses, apiKey, requests,
          attempts>>

\* mutant of addFile: the aggregate cap is tested before truncating, so an
\* oversized file is rejected when its truncated text does not fit
addFileBudgetFirst(file, sel, total) ==
  LET truncatedContent == Substring0(file.content, MAX_FILE_SIZE) \o MarkerText
      size == IF file.size > MAX_FILE_SIZE THEN StrLength(truncatedContent)
              ELSE file.size
  IN IF total + size > MAX_TOTAL_CONTENT
     THEN [sel |-> sel, total |-> total, ok |-> FALSE, outcome |-> "rejected"]
     ELSE IF file.size > MAX_FILE_SIZE
     THEN [sel     |-> Append(sel, [file EXCEPT !.content = truncatedContent,
                                                !.size = size]),
           total   |-> total + size,
           ok      |-> total + size < MAX_TOTAL_CONTENT,
           outcome |-> "truncated"]
     ELSE [sel     |-> Append(sel, file),
           total   |-> total + file.size,
           ok      |-> TRUE,
           outcome |-> "added"]

\* mutant of addFile: the truncated copy keeps the size of the original
addFileKeepsSize(file, sel, total) ==
  IF file.size > MAX_FILE_SIZE
  THEN LET truncatedContent == Substring0(file.content, MAX_FILE_SIZE) \o MarkerText
           size == StrLength(truncatedContent)
       IN [sel     |-> Append(sel, [file EXCEPT !.content = truncatedContent]),
           total   |-> total + size,
           ok      |-> total + size < MAX_TOTAL_CONTENT,
           outcome |-> "truncated"]
  ELSE IF total + file.size > MAX_TOTAL_CONTENT
  THEN [sel |-> sel, total |-> total, ok |-> FALSE, outcome |-> "rejected"]
  ELSE [sel     |-> Append(sel, file),
        total   |-> total + file.size,
        ok      |-> TRUE,
        outcome |-> "added"]

\* mutant of addFile: the running total grows by the original size of a
\* truncated file
addFileCountsOriginal(file, sel, total) ==
  IF file.size > MAX_FILE_SIZE
  THEN LET truncatedContent == Substring0(file.content, MAX_FILE_SIZE) \o MarkerText
           size == StrLength(truncatedContent)
       IN [sel     |-> Append(sel, [file EXCEPT !.content = truncatedContent,
                                                !.size = size]),
           total   |-> total + file.size,
           ok      |-> total + file.size < MAX_TOTAL_CONTENT,
           outcome |-> "truncated"]
  ELSE IF total + file.size > MAX_TOTAL_CONTENT
  THEN [sel |-> sel, total |-> total, ok |-> FALSE, outcome |-> "rejected"]
  ELSE [sel     |-> Append(sel, file),
        total   |-> total + file.size,
        ok      |-> TRUE,
        outcome |-> "added"]

\* mutant of addFile: the cap is tested on the running total alone
addFileTestsTotalOnly(file, sel, total) ==
  IF file.size > MAX_FILE_SIZE
  THEN LET truncatedContent == Substring0(file.content, MAX_FILE_SIZE) \o MarkerText
           size == StrLength(truncatedContent)
       IN [sel     |-> Append(sel, [file EXCEPT !.content = truncatedContent,
                                                !.size = size]),
           total   |-> total + size,
           ok      |-> total + size < MAX_TOTAL_CONTENT,
           outcome |-> "truncated"]
  ELSE IF total > MAX_TOTAL_CONTENT
  THEN [sel |-> sel, total |-> total, ok |-> FALSE, outcome |-> "rejected"]
  ELSE [sel     |-> Append(sel, file),
        total   |-> total + file.size,
        ok      |-> TRUE,
        outcome |-> "added"]

\* addFile(file) on the closure state (sel, total): the new state, the
\* returned boolean, and what happened
addFile(file, sel, total) ==
  IF file.size > MAX_FILE_SIZE
  THEN LET truncatedContent == Substring0(file.content, MAX_FILE_SIZE) \o MarkerText
           size == StrLength(truncatedContent)
       IN [sel     |-> Append(sel, [file EXCEPT !.content = truncatedContent,
                                                !.size = size]),
           total   |-> total + size,
           ok      |-> total + size < MAX_TOTAL_CONTENT,
           outcome |-> "truncated"]
  ELSE IF total + file.size > MAX_TOTAL_CONTENT
  THEN [sel |-> sel, total |-> total, ok |-> FALSE, outcome |-> "rejected"]
  ELSE [sel     |-> Append(sel, file),
        total   |-> total + file.size,
        ok      |-> TRUE,
        outcome |-> "added"]

IsPriority1(f) == FileName(f.path) \in PRIORITY_1_FILES

IsPriority2(f) == FileName(f.path) \in PRIORITY_2_PATTERNS

IsEntryPoint(f) == FileName(f.path) \in ENTRY_POINT_PATTERNS

IsSourceFile(f) ==
  \E k \in 1..Len(PRIORITY_DIRECTORIES) : IncludesDir(f.path, PRIORITY_DIRECTORIES[k])

\* mutant of priority1: the filter of the configuration pass, pasted
priority1WrongList(fs) == FilterSeq(fs, {f \in Range(fs) : IsPriority2(f)})

priority1(fs) == FilterSeq(fs, {f \in Range(fs) : IsPriority1(f)})

\* mutant of priority2: the filter of the entry-point pass, pasted
priority2WrongList(fs) == FilterSeq(fs, {f \in Range(fs) : IsEntryPoint(f)})

priority2(fs) == FilterSeq(fs, {f \in Range(fs) : IsPriority2(f)})

\* mutant of entryPoints: the sort by depth is missing
entryPointsUnsorted(fs) == FilterSeq(fs, {f \in Range(fs) : IsEntryPoint(f)})

entryPoints(fs) ==
  LET c == FilterSeq(fs, {f \in Range(fs) : IsEntryPoint(f)})
  IN StableSort(c, [k \in 1..Len(c) |-> Depth(c[k].path)])

\* comparator: aDirIndex - bDirIndex when they differ, else the depths
sourceFiles(fs) ==
  LET c == FilterSeq(fs, {f \in Range(fs) : IsSourceFile(f)})
      maxDepth == 1 + (IF c = << >> THEN 0
                       ELSE CHOOSE d \in {Depth(f.path) : f \in Range(c)} :
                              \A f \in Range(c) : Depth(f.path) <= d)
  IN StableSort(c, [k \in 1..Len(c) |->
                      DirIndex(c[k].path) * maxDepth + Depth(c[k].path)])

\* mutant of rootFiles: the already-selected files are not filtered out
rootFilesNoDedup(fs, sel) ==
  LET b == FilterSeq(fs, {f \in Range(fs) : Depth(f.path) <= 2})
      c == StableSort(b, [k \in 1..Len(b) |-> LocaleRank(b[k].path)])
  IN Slice0(c, RootFileLimit)

rootFiles(fs, sel) ==
  LET a == FilterSeq(fs, {f \in Range(fs) : ~HasPath(sel, f.path)})
      b == FilterSeq(a, {f \in Range(a) : Depth(f.path) <= 2})
      c == StableSort(b, [k \in 1..Len(b) |-> LocaleRank(b[k].path)])
  IN Slice0(c, RootFileLimit)

\* mutant of ArgumentAfterAddFile: the oversized file is truncated in place
ArgumentTruncatedInPlace(file) ==
  IF file.size > MAX_FILE_SIZE
  THEN LET truncatedContent == Substring0(file.content, MAX_FILE_SIZE) \o MarkerText
       IN [file EXCEPT !.content = truncatedContent,
                       !.size = StrLength(truncatedContent)]
  ELSE file

\* the object passed to addFile, as the call leaves it: the truncated record
\* is a spread copy ({ ...file, content, size }) and the plain branch pushes
\* the reference without writing to it
ArgumentAfterAddFile(file) == file

\* the input array after a call on one of its objects: the candidate arrays
\* are filtered (and sorted) copies that share the objects of the input
InputAfter(fs, file, after) ==
  [k \in 1..Len(fs) |-> IF fs[k] = file THEN after ELSE fs[k]]

\* one record per addFile call
Call(pass, file, r, total) ==
  [pass |-> pass, path |-> file.path, size |-> file.size,
   outcome |-> r.outcome, ok |-> r.ok, before |-> total, after |-> r.total]

\* what the function does on entering a pass / returning
Goto(pass, c) == pc' = pass /\ cand' = c /\ idx' = 1

\* mutant of AfterSourceFiles: the fallback runs whatever was selected
AlwaysFallback(sel) == Goto("fb", rootFiles(files, sel))

\* after the source-file loop: the fallback runs only with fewer than 5 files
AfterSourceFiles(sel) ==
  IF Len(sel) < FallbackThreshold
  THEN Goto("fb", rootFiles(files, sel))
  ELSE Goto("done", << >>)

\* mutant of BreakOn: the loop goes on after a refused candidate
NeverBreak(ok) == FALSE

\* "if (!addFile(file)) break;"
BreakOn(ok) == ~ok

\* mutant of SourceLimitReached: > for >=
SourceLimitOffByOne(count) == count > SourceFileLimit

\* "if (sourceFileCount >= 20) break;"
SourceLimitReached(count) == count >= SourceFileLimit

\* the body of "for (const file of cand) { if (!addFile(file)) break; }":
\* one iteration, or the exit of an empty loop; after the loop the function
\* goes on to pass next with the candidates c
LoopStep(pass, next, c) ==
  /\ pc = pass
  /\ UNCHANGED <<sourceFileCount, run, firstInput, firstResult, chunkVars, apiVars>>
  /\ IF idx > Len(cand)
     THEN /\ UNCHANGED <<files, selectedFiles, totalSize, calls>>
          /\ Goto(next, c)
     ELSE LET r == addFile(cand[idx], selectedFiles, totalSize)
          IN /\ selectedFiles' = r.sel
             /\ files' = InputAfter(files, cand[idx], ArgumentAfterAddFile(cand[idx]))
             /\ totalSize' = r.total
             /\ calls' = Append(calls, Call(pass, cand[idx], r, totalSize))
             /\ IF ~BreakOn(r.ok) /\ idx < Len(cand)
                THEN idx' = idx + 1 /\ UNCHANGED <<pc, cand>>
                ELSE Goto(next, c)

\* Priority 1: Documentation files
Priority1 == LoopStep("p1", "p2", priority2(files))

\* Priority 2: Configuration files
Priority2 == LoopStep("p2", "p3", entryPoints(files))

\* Priority 3: Entry points
Priority3 == LoopStep("p3", "p4", sourceFiles(files))

\* Priority 4: up to 20 source files, skipping those already added
Priority4 ==
  /\ pc = "p4"
  /\ UNCHANGED <<run, firstInput, firstResult, chunkVars, apiVars>>
  /\ IF idx > Len(cand) \/ SourceLimitReached(sourceFileCount)
     THEN /\ UNCHANGED <<files, selectedFiles, totalSize, calls, sourceFileCount>>
          /\ AfterSourceFiles(selectedFiles)
     ELSE IF HasPath(selectedFiles, cand[idx].path)
     THEN /\ UNCHANGED <<files, selectedFiles, totalSize, calls, sourceFileCount>>
          /\ idx' = idx + 1 /\ UNCHANGED <<pc, cand>>
     ELSE LET r == addFile(cand[idx], selectedFiles, totalSize)
          IN /\ selectedFiles' = r.sel
             /\ files' = InputAfter(files, cand[idx], ArgumentAfterAddFile(cand[idx]))
             /\ totalSize' = r.total
             /\ calls' = Append(calls, Call("p4", cand[idx], r, totalSize))
             /\ IF ~BreakOn(r.ok)
                THEN /\ sourceFileCount' = sourceFileCount + 1
                     /\ idx' = idx + 1 /\ UNCHANGED <<pc, cand>>
                ELSE /\ UNCHANGED sourceFileCount
                     /\ AfterSourceFiles(r.sel)

\* the fallback: files from the root
Fallback == LoopStep("fb", "done", << >>)

\* selectKeyFiles applied to its own result
Reselect ==
  /\ pc = "done" /\ run = 1
  /\ run' = 2
  /\ firstResult' = selectedFiles
  /\ files' = selectedFiles
  /\ selectedFiles' = << >>
  /\ totalSize' = 0
  /\ sourceFileCount' = 0
  /\ calls' = << >>
  /\ Goto("p1", priority1(selectedFiles))
  /\ UNCHANGED <<firstInput, chunkVars, apiVars>>

Init ==
  /\ files \in Inputs
  /\ selectedFiles = << >>
  /\ totalSize = 0
  /\ sourceFileCount = 0
  /\ pc = "p1"
  /\ cand = priority1(files)
  /\ idx = 1
  /\ calls = << >>
  /\ run = 1
  /\ firstInput = files
  /\ firstResult = << >>
  /\ chunks = << >>
  /\ currentChunk = << >>
  /\ currentFileCount = 0
  /\ currentSize = 0
  /\ responses = << >>
  /\ apiKey = TRUE
  /\ requests = << >>
  /\ attempts = << >>

Next ==
  \/ Priority1
  \/ Priority2
  \/ Priority3
  \/ Priority4
  \/ Fallback
  \/ Reselect

Spec == Init /\ [][Next]_vars

\* ------------------------------------------------------------------------
\* chunkContent
\* ------------------------------------------------------------------------
MAX_CHUNK_TOKENS == 4000

CHARS_PER_TOKEN == 4

maxChunkSize == MAX_CHUNK_TOKENS * CHARS_PER_TOKEN

\* length of the path as a string: its segments joined by '/'
RECURSIVE PathLength(_)
PathLength(path) ==
  IF path = << >> THEN 0
  ELSE Len(Head(path)) + (IF Len(path) > 1 THEN 1 ELSE 0) + PathLength(Tail(path))

\* `=== ${file.path} ===\n${file.content}\n\n`: the header line ('=== ', the
\* path, ' ===\n'), the content, and two newlines
fileContent(file) ==
  <<[src |-> <<"=== ">> \o file.path \o <<" ===\n">>,
     len |-> 4 + PathLength(file.path) + 5]>>
  \o file.content
  \o <<[src |-> <<"\n\n">>, len |-> 2]>>

\* most files in an input of chunkContent
MaxChunkFiles == 3

\* paths of 4 characters, and one of 8
ChunkPaths == {<<"a.ts">>, <<"b.ts">>, <<"d.ts">>, <<"src", "c.ts">>}

\* <<size, content length>>: an empty file; two files that with a path of 4
\* characters fill a chunk exactly (2 x 8000), the byte size being larger
\* than the text; one character more; a file longer than a chunk
ChunkKinds == {<<0, 0>>, <<8200, 7985>>, <<7986, 7986>>, <<20000, 20000>>}

ChunkInputs ==
  LET F == {FileObject(p, k[1], k[2]) : p \in ChunkPaths, k \in ChunkKinds}
  IN UNION {{s \in [1..n -> F] :
               \A a, b \in 1..n : a # b => s[a].path # s[b].path}
            : n \in 0..MaxChunkFiles}

\* a ContentChunk
ContentChunk(content, fileCount, size) ==
  [content |-> content, fileCount |-> fileCount, totalSize |-> size]

\* mutant of StartsNewChunk: the buffer is flushed even when it is empty
StartsNewChunkEvenEmpty(cur, add) == cur + add > maxChunkSize

\* mutant of StartsNewChunk: a block longer than a chunk joins the buffer
StartsNewChunkUnlessLong(cur, add) ==
  cur + add > maxChunkSize /\ cur > 0 /\ add <= maxChunkSize

\* mutant of StartsNewChunk: the buffer is flushed once it is over the ceiling
StartsNewChunkWhenOver(cur, add) == cur > maxChunkSize /\ cur > 0

\* mutant of StartsNewChunk: >= for >
StartsNewChunkAtCeiling(cur, add) == cur + add >= maxChunkSize /\ cur > 0

\* "currentChunk.length + fileContent.length > maxChunkSize &&
\*  currentChunk.length > 0"
StartsNewChunk(cur, add) == cur + add > maxChunkSize /\ cur > 0

\* mutant of AddToChunk: currentSize is not reset with the buffer
AddToChunkSizeKept(file, cs, cur, n, sz) ==
  LET block == fileContent(file)
  IN IF StartsNewChunk(StrLength(cur), StrLength(block))
     THEN [chunks           |-> Append(cs, ContentChunk(cur, n, sz)),
           currentChunk     |-> block,
           currentFileCount |-> 1,
           currentSize      |-> sz + file.size]
     ELSE [chunks           |-> cs,
           currentChunk     |-> cur \o block,
           currentFileCount |-> n + 1,
           currentSize      |-> sz + file.size]

\* the body of "for (const file of files)" on the state (chunks,
\* currentChunk, currentFileCount, currentSize)
AddToChunk(file, cs, cur, n, sz) ==
  LET block == fileContent(file)
  IN IF StartsNewChunk(StrLength(cur), StrLength(block))
     THEN [chunks           |-> Append(cs, ContentChunk(cur, n, sz)),
           currentChunk     |-> block,
           currentFileCount |-> 1,
           currentSize      |-> file.size]
     ELSE [chunks           |-> cs,
           currentChunk     |-> cur \o block,
           currentFileCount |-> n + 1,
           currentSize      |-> sz + file.size]

\* mutant of LastChunk: the buffer left after the loop is not pushed
LastChunkDropped(cs, cur, n, sz) == cs

\* "Add the last chunk if it has content"
LastChunk(cs, cur, n, sz) ==
  IF StrLength(cur) > 0 THEN Append(cs, ContentChunk(cur, n, sz)) ELSE cs

\* one iteration of the loop over files
ChunkFile ==
  /\ pc = "chunk" /\ idx <= Len(files)
  /\ LET r == AddToChunk(files[idx], chunks, currentChunk, currentFileCount,
                         currentSize)
     IN /\ chunks' = r.chunks
        /\ currentChunk' = r.currentChunk
        /\ currentFileCount' = r.currentFileCount
        /\ currentSize' = r.currentSize
  /\ idx' = idx + 1
  /\ UNCHANGED <<files, pc, selectorVars, apiVars>>

\* after the loop: the last chunk, and the return
ChunkReturn ==
  /\ pc = "chunk" /\ idx > Len(files)
  /\ chunks' = LastChunk(chunks, currentChunk, currentFileCount, currentSize)
  /\ pc' = "chunked"
  /\ UNCHANGED <<files, idx, currentChunk, currentFileCount, currentSize,
                 selectorVars, apiVars>>

\* chunkContent(files) is called
InitChunk ==
  /\ files \in ChunkInputs
  /\ pc = "chunk"
  /\ idx = 1
  /\ chunks = << >>
  /\ currentChunk = << >>
  /\ currentFileCount = 0
  /\ currentSize = 0
  /\ selectedFiles = << >> /\ totalSize = 0 /\ sourceFileCount = 0
  /\ cand = << >> /\ calls = << >>
  /\ run = 1 /\ firstInput = files /\ firstResult = << >>
  /\ responses = << >> /\ apiKey = TRUE /\ requests = << >> /\ attempts = << >>

NextChunk ==
  \/ ChunkFile
  \/ ChunkReturn

SpecChunk == InitChunk /\ [][NextChunk]_vars

\* the for-of loop over a finite array is not suspended
SpecChunkFair == SpecChunk /\ WF_vars(NextChunk)

\* ------------------------------------------------------------------------
\* callHuggingFaceAPI and analyzeWithHuggingFace
\* ------------------------------------------------------------------------
\* most chunks in an argument of analyzeWithHuggingFace
MaxChunks == 2

ChunkNames == <<"one.ts", "two.ts", "three.ts", "four.ts">>

\* the arguments: n chunks of one small file each
AnalyzeInputs ==
  {[k \in 1..n |->
      ContentChunk(fileContent(FileObject(<<ChunkNames[k]>>, 1000, 1000)), 1, 1000)]
   : n \in 0..MaxChunks}

\* what axios.post can come back with: a 2xx response whose data is an array
\* with generated_text, an empty array, an object with generated_text, a
\* string, something else, or null; an error response with a status (for 503
\* with the estimated_time of its body, 0 when it has none); no response at
\* all (status 0: timeout, network error)
PostOutcomes ==
  {[status |-> 200, data |-> d, estimated_time |-> 0] :
     d \in {"array", "emptyArray", "object", "string", "other", "null"}}
  \cup {[status |-> 503, data |-> "error", estimated_time |-> e] :
          e \in {0, 10, 29, 30, 45}}
  \cup {[status |-> s, data |-> "error", estimated_time |-> 0] :
          s \in {429, 401, 403, 500, 0}}

\* "error.response.data?.estimated_time || 20"
estimatedTime(o) == IF o.estimated_time = 0 THEN 20 ELSE o.estimated_time

\* mutant of ShouldRetry: every 503 is retried
ShouldRetryAny503(o) == o.status = 503

\* "if (error.response?.status === 503) { ... if (estimatedTime < 30) {"
ShouldRetry(o) == o.status = 503 /\ estimatedTime(o) < 30

\* the post resolved and its data can be read (reading a property of a null
\* body throws inside the try block)
Readable(o) == o.status = 200 /\ o.data # "null"

\* what a call gives back: a returned text or a raised Error
Returns(text) == [raised |-> FALSE, value |-> text]

Raises(message) == [raised |-> TRUE, value |-> message]

\* the first response's "Handle different response formats"
FirstText(o) ==
  CASE o.data = "array" -> "generated text"
    [] o.data = "emptyArray" -> ""
    [] o.data = "object" -> "generated text"
    [] o.data = "string" -> "response text"
    [] OTHER -> ""

\* the same after the retry, where a string response is not looked at
RetryText(o) ==
  CASE o.data = "array" -> "generated text"
    [] o.data = "emptyArray" -> ""
    [] o.data = "object" -> "generated text"
    [] OTHER -> ""

\* the errors thrown from the catch block when no retry is made
FirstError(o) ==
  CASE o.status = 503 -> "AI model unavailable. Please try again in a few minutes."
    [] o.status = 429 ->
         "Analysis service temporarily unavailable. Please try again later."
    [] o.status \in {401, 403} -> "Analysis service configuration error"
    [] OTHER -> "Analysis service unavailable"

Placeholder == "Analysis unavailable for this section."

\* mutant of PushResponse: nothing is recorded for a failed chunk
PushResponseNoPlaceholder(resps, r) ==
  IF ~r.raised /\ r.value # "" THEN Append(resps, r.value) ELSE resps

\* "if (response) responses.push(response)" and the catch block's push
PushResponse(resps, r) ==
  IF r.raised THEN Append(resps, Placeholder)
  ELSE IF r.value # "" THEN Append(resps, r.value)
  ELSE resps

\* a request as sent, and as answered
Request(chunk, retry) ==
  [chunk |-> chunk, retry |-> retry, status |-> -1, estimated_time |-> 0]

Answered(reqs, o) ==
  [reqs EXCEPT ![Len(reqs)].status = o.status,
               ![Len(reqs)].estimated_time = o.estimated_time]

\* callHuggingFaceAPI is over with result r: analyzeWithHuggingFace records
\* it and goes on to the next chunk
Settle(r) ==
  /\ attempts' = Append(attempts, [chunk |-> idx, raised |-> r.raised,
                                   value |-> r.value])
  /\ responses' = PushResponse(responses, r)
  /\ idx' = idx + 1
  /\ pc' = "analyze"

\* the loop body up to the first await: the API key test and the first post
CallAPI ==
  /\ pc = "analyze" /\ idx <= Len(chunks)
  /\ IF ~apiKey
     THEN /\ Settle(Raises("HuggingFace API key not configured"))
          /\ UNCHANGED requests
     ELSE /\ requests' = Append(requests, Request(idx, FALSE))
          /\ pc' = "post"
          /\ UNCHANGED <<idx, responses, attempts>>
  /\ UNCHANGED <<files, chunks, apiKey, currentChunk, currentFileCount,
                 currentSize, selectorVars>>

\* the first post is answered
FirstResponse ==
  /\ pc = "post"
  /\ \E o \in PostOutcomes :
       IF Readable(o)
       THEN /\ requests' = Answered(requests, o)
            /\ Settle(Returns(FirstText(o)))
       ELSE IF ShouldRetry(o)
       THEN /\ requests' = Append(Answered(requests, o), Request(idx, TRUE))
            /\ pc' = "retry"
            /\ UNCHANGED <<idx, responses, attempts>>
       ELSE /\ requests' = Answered(requests, o)
            /\ Settle(Raises(FirstError(o)))
  /\ UNCHANGED <<files, chunks, apiKey, currentChunk, currentFileCount,
                 currentSize, selectorVars>>

\* the retry is answered
RetryResponse ==
  /\ pc = "retry"
  /\ \E o \in PostOutcomes :
       /\ requests' = Answered(requests, o)
       /\ IF Readable(o)
          THEN Settle(Returns(RetryText(o)))
          ELSE Settle(Raises("AI model unavailable. Please try again in a few minutes."))
  /\ UNCHANGED <<files, chunks, apiKey, currentChunk, currentFileCount,
                 currentSize, selectorVars>>

\* "return responses"
AnalyzeReturn ==
  /\ pc = "analyze" /\ idx > Len(chunks)
  /\ pc' = "analyzed"
  /\ UNCHANGED <<files, idx, chunkVars, apiVars, selectorVars>>

\* analyzeWithHuggingFace(chunks) is called
InitAnalyze ==
  /\ chunks \in AnalyzeInputs
  /\ apiKey \in BOOLEAN
  /\ pc = "analyze"
  /\ idx = 1
  /\ responses = << >> /\ requests = << >> /\ attempts = << >>
  /\ files = << >>
  /\ currentChunk = << >> /\ currentFileCount = 0 /\ currentSize = 0
  /\ selectedFiles = << >> /\ totalSize = 0 /\ sourceFileCount = 0
  /\ cand = << >> /\ calls = << >>
  /\ run = 1 /\ firstInput = << >> /\ firstResult = << >>

NextAnalyze ==
  \/ CallAPI
  \/ FirstResponse
  \/ RetryResponse
  \/ AnalyzeReturn

SpecAnalyze == InitAnalyze /\ [][NextAnalyze]_vars

\* ------------------------------------------------------------------------
\* Vocabulary of the properties
\* ------------------------------------------------------------------------
RECURSIVE SumSizes(_)
SumSizes(sel) == IF sel = << >> THEN 0 ELSE Head(sel).size + SumSizes(Tail(sel))

Min(a, b) == IF a <= b THEN a ELSE b

\* a record whose content ends with the truncation marker
IsTruncated(r) ==
  r.content # << >> /\ r.content[Len(r.content)].src = TruncationMarker

TruncatedIndexes(sel) == {k \in 1..Len(sel) : IsTruncated(sel[k])}

\* size of a record truncated from a text of at least MAX_FILE_SIZE characters
TruncatedSize == MAX_FILE_SIZE + MarkerLength

Returned == pc = "done"

\* some record of the output has the path
InOutput(path) == \E k \in 1..Len(selectedFiles) : selectedFiles[k].path = path

Appended(c) == c.outcome \in {"added", "truncated"}

\* the calls that appended a record, in order: the k-th made selectedFiles[k]
AppendedCalls == FilterSeq(calls, {c \in Range(calls) : Appended(c)})

\* the input file with the given path
InputFile(path) == CHOOSE f \in Range(files) : f.path = path

InputIndex(path) == CHOOSE k \in 1..Len(files) : files[k].path = path

MatchesTier(f) ==
  IsPriority1(f) \/ IsPriority2(f) \/ IsEntryPoint(f) \/ IsSourceFile(f)

UnderBudget(sel) ==
  /\ \A k \in 1..Len(sel) : sel[k].size <= MAX_FILE_SIZE
  /\ SumSizes(sel) <= MAX_TOTAL_CONTENT

\* ------------------------------------------------------------------------
\* C1
\* ------------------------------------------------------------------------
\* C1: the sizes of the selected records sum to at most the aggregate cap
\* plus one truncated file's size (per-file cap + marker length).
C1_OneOverflowAtMost ==
  SumSizes(selectedFiles) <= MAX_TOTAL_CONTENT + TruncatedSize

\* ------------------------------------------------------------------------
\* C2
\* ------------------------------------------------------------------------
\* C2 (as claimed): once a candidate has been rejected for exceeding the
\* aggregate cap, no later addFile call of the run appends a file.
C2_RejectionIsTerminal ==
  \A i, j \in 1..Len(calls) :
    (i < j /\ calls[i].outcome = "rejected") => ~Appended(calls[j])

\* C2 (amended): a rejection ends only the pass it happens in.  After a
\* candidate has been rejected, no file is appended in the rest of that
\* pass; later passes still run, and every file they append is either an
\* oversized file in truncated form or strictly smaller than the rejected
\* candidate.
C2_RejectionEndsPass ==
  \A i, j \in 1..Len(calls) :
    (i < j /\ calls[i].outcome = "rejected" /\ Appended(calls[j]))
      => /\ calls[j].pass # calls[i].pass
         /\ calls[j].outcome = "truncated" \/ calls[j].size < calls[i].size

\* a run where a later pass appended a file after a rejection
C2_Witness ==
  /\ Returned
  /\ \E i, j \in 1..Len(calls) :
       i < j /\ calls[i].outcome = "rejected" /\ calls[j].outcome = "added"

\* ------------------------------------------------------------------------
\* C3
\* ------------------------------------------------------------------------
\* C3 (as claimed): when the result S of the first run is under budget,
\* selectKeyFiles(S) returns the same set of files as S.
C3_Idempotent ==
  (Returned /\ run = 2 /\ UnderBudget(firstResult))
    => Range(selectedFiles) = Range(firstResult)

\* C3 (amended): when the result S of the first run is under budget,
\* selectKeyFiles(S) is a subset of S that keeps every file of S matching one
\* of the four tier predicates; it equals S when S holds fewer than 5 such
\* files or only such files.  (With 5 or more tier files in S the fallback
\* pass does not run again and the other files of S are dropped.)
C3_IdempotentOnTierFiles ==
  (Returned /\ run = 2 /\ UnderBudget(firstResult))
    => LET S == Range(firstResult)
           T == {f \in S : MatchesTier(f)}
       IN /\ Range(selectedFiles) \subseteq S
          /\ T \subseteq Range(selectedFiles)
          /\ (Cardinality(T) < FallbackThreshold \/ T = S)
               => Range(selectedFiles) = S

\* a second run over an under-budget result that holds a fallback file
\* next to tier files, and returns all of it
C3_Witness ==
  /\ Returned /\ run = 2 /\ UnderBudget(firstResult)
  /\ \E f \in Range(firstResult) : ~MatchesTier(f)
  /\ \E f \in Range(firstResult) : MatchesTier(f)
  /\ Range(selectedFiles) = Range(firstResult)

\* ------------------------------------------------------------------------
\* C4
\* ------------------------------------------------------------------------
\* C4 (as claimed): every input file over the per-file cap that is a
\* candidate of some pass is in the output.
C4_OversizedNeverDropped ==
  (Returned /\ run = 1)
    => \A f \in Range(files) :
         (f.size > MAX_FILE_SIZE /\ (MatchesTier(f) \/ Depth(f.path) <= 2))
           => InOutput(f.path)

\* C4 (amended): addFile never rejects a file over the per-file cap: every
\* oversized candidate that a pass reaches is appended in truncated form,
\* whatever the running total is.  An oversized candidate behind the point
\* where its pass stopped is not reached and may be missing from the output.
C4_OversizedNeverRejected ==
  /\ \A k \in 1..Len(calls) :
       calls[k].size > MAX_FILE_SIZE
         => /\ calls[k].outcome = "truncated"
            /\ \E m \in 1..Len(selectedFiles) :
                 /\ selectedFiles[m].path = calls[k].path
                 /\ IsTruncated(selectedFiles[m])
  /\ Returned
       => \A c \in {priority1(files), priority2(files), entryPoints(files)} :
            (c # << >> /\ c[1].size > MAX_FILE_SIZE)
              => InOutput(c[1].path)

\* an oversized file appended although the running total was already over
\* the aggregate cap
C4_Witness ==
  \E k \in 1..Len(calls) :
    /\ calls[k].outcome = "truncated"
    /\ calls[k].before > MAX_TOTAL_CONTENT
    /\ InOutput(calls[k].path)

\* ------------------------------------------------------------------------
\* C5
\* ------------------------------------------------------------------------
\* C5: after a truncated record has been appended and the running total is
\* at or over the aggregate cap, no further file is appended in the run: the
\* truncated record is the last element of the output.
C5_TruncatedIsLast ==
  \A i, j \in 1..Len(calls) :
    (i < j /\ calls[i].outcome = "truncated"
           /\ calls[i].after >= MAX_TOTAL_CONTENT)
      => ~Appended(calls[j])

\* ------------------------------------------------------------------------
\* C6
\* ------------------------------------------------------------------------
\* the records of the first run's output made from an input file whose size
\* is over the per-file cap, each with that input file
OversizedPairs ==
  {<<selectedFiles[k], InputFile(selectedFiles[k].path)>> :
     k \in {m \in 1..Len(selectedFiles) :
              InputFile(selectedFiles[m].path).size > MAX_FILE_SIZE}}

\* C6 (as claimed): a record made from a file over the per-file cap holds
\* the first MAX_FILE_SIZE characters of the original content followed by
\* the marker, and its size is MAX_FILE_SIZE plus the marker length.
C6_TruncatedToCap ==
  run = 1 =>
    \A pr \in OversizedPairs :
      /\ pr[1].content =
           <<[src |-> pr[2].path, len |-> MAX_FILE_SIZE]>> \o MarkerText
      /\ pr[1].size = MAX_FILE_SIZE + MarkerLength

\* C6 (amended): a record made from a file whose size is over the per-file
\* cap holds the first min(n, MAX_FILE_SIZE) characters of the original
\* content, n being the length of that content, followed by the marker, and
\* its size is the length of that text, min(n, MAX_FILE_SIZE) plus the
\* marker length; this is MAX_FILE_SIZE plus the marker length exactly when
\* the content has at least MAX_FILE_SIZE characters.
C6_TruncatedToContent ==
  run = 1 =>
    \A pr \in OversizedPairs :
      LET n == StrLength(pr[2].content)
          kept == Min(n, MAX_FILE_SIZE)
      IN /\ pr[1].path = pr[2].path
         /\ pr[1].content =
              (IF kept = 0 THEN << >>
               ELSE <<[src |-> pr[2].path, len |-> kept]>>) \o MarkerText
         /\ pr[1].size = kept + MarkerLength
         /\ pr[1].size = StrLength(pr[1].content)
         /\ (pr[1].size = MAX_FILE_SIZE + MarkerLength) <=> (n >= MAX_FILE_SIZE)

\* an output with a record cut at the cap and a record whose content was
\* shorter than the cap
C6_Witness ==
  /\ Returned /\ run = 1
  /\ \E pr \in OversizedPairs : pr[1].size = MAX_FILE_SIZE + MarkerLength
  /\ \E pr \in OversizedPairs : pr[1].size < MAX_FILE_SIZE

\* ------------------------------------------------------------------------
\* C7
\* ------------------------------------------------------------------------
\* inputs with exactly one documentation-tier file d and exactly one
\* source-directory-tier file s, of one size that fits the cap once
PrecedencePairs ==
  LET D == {f \in Range(files) : IsPriority1(f)}
      S == {f \in Range(files) : IsSourceFile(f)}
  IN {<<d, s>> \in D \X S :
        /\ Cardinality(D) = 1 /\ Cardinality(S) = 1 /\ d # s
        /\ d.size = s.size
        /\ d.size <= MAX_TOTAL_CONTENT
        /\ d.size + s.size > MAX_TOTAL_CONTENT}

\* C7: of a documentation-tier file and a source-directory-tier file of the
\* same size, only one of which fits the aggregate cap, the output holds the
\* documentation file and not the source file, whatever their input order.
C7_TierPrecedence ==
  Returned =>
    \A pr \in PrecedencePairs :
      InOutput(pr[1].path) /\ ~InOutput(pr[2].path)

\* such a pair with the source file first in the input
C7_Witness ==
  /\ Returned
  /\ \E pr \in PrecedencePairs :
       /\ InputIndex(pr[2].path) < InputIndex(pr[1].path)
       /\ InOutput(pr[1].path)

\* ------------------------------------------------------------------------
\* C8
\* ------------------------------------------------------------------------
\* positions in the output of the records the entry-point pass appended
EntryPointPositions ==
  {k \in 1..Len(AppendedCalls) : AppendedCalls[k].pass = "p3"}

\* C8: of two files appended by the entry-point pass, the one of smaller
\* depth comes first in the output, and two of equal depth come in input
\* order.
C8_DepthTieBreak ==
  /\ Len(AppendedCalls) = Len(selectedFiles)
  /\ \A a, b \in EntryPointPositions :
       LET fa == selectedFiles[a]
           fb == selectedFiles[b]
       IN /\ AppendedCalls[a].path = fa.path
          /\ Depth(fa.path) < Depth(fb.path) => a < b
          /\ (Depth(fa.path) = Depth(fb.path)
                /\ InputIndex(fa.path) < InputIndex(fb.path)) => a < b

\* the nested entry point came first in the input and second in the output
C8_Witness ==
  /\ Returned
  /\ \E a, b \in EntryPointPositions :
       /\ a < b
       /\ Depth(selectedFiles[a].path) < Depth(selectedFiles[b].path)
       /\ InputIndex(selectedFiles[b].path) < InputIndex(selectedFiles[a].path)

\* ------------------------------------------------------------------------
\* C9
\* ------------------------------------------------------------------------
\* C9: the paths of the input being pairwise distinct, no two records of
\* the output share a path.
C9_NoDuplicatePath ==
  (\A a, b \in 1..Len(files) : a # b => files[a].path # files[b].path)
    => \A a, b \in 1..Len(selectedFiles) :
         a # b => selectedFiles[a].path # selectedFiles[b].path

\* a file of an earlier pass that is also a source-directory candidate was
\* met again by the source-directory pass and by then was in the result
C9_Witness ==
  /\ pc = "p4" /\ idx <= Len(cand)
  /\ InOutput(cand[idx].path)
  /\ IsEntryPoint(cand[idx])

\* ------------------------------------------------------------------------
\* C10
\* ------------------------------------------------------------------------
SourcePassCalls == {k \in 1..Len(calls) : calls[k].pass = "p4"}

\* C10: the source-directory pass appends at most 20 files in a run, and
\* candidates it skips as already selected are not counted: the counter is
\* the number of its addFile calls that returned true.
C10_SourceFileLimit ==
  /\ Cardinality({k \in SourcePassCalls : Appended(calls[k])}) <= SourceFileLimit
  /\ sourceFileCount = Cardinality({k \in SourcePassCalls : calls[k].ok})
  /\ sourceFileCount <= SourceFileLimit

\* the pass appended 20 files after skipping a selected one, with candidates
\* left over
C10_Witness ==
  /\ Returned
  /\ Cardinality({k \in SourcePassCalls : Appended(calls[k])}) = SourceFileLimit
  /\ Len(selectedFiles) = SourceFileLimit + 1
  /\ Len(sourceFiles(files)) > SourceFileLimit + 1

\* ------------------------------------------------------------------------
\* C11
\* ------------------------------------------------------------------------
TierPasses == {"p1", "p2", "p3", "p4"}

\* the path was appended by one of the four tier passes
TierSelected(path) ==
  \E k \in 1..Len(calls) :
    calls[k].pass \in TierPasses /\ Appended(calls[k]) /\ calls[k].path = path

\* the input files of depth <= 2 that the tier passes left unselected
ShallowUnselected ==
  {f \in Range(files) : Depth(f.path) <= 2 /\ ~TierSelected(f.path)}

\* 0-based position of the path among them, in localeCompare order
FallbackRank(path) ==
  Cardinality({f \in ShallowUnselected : LocaleRank(f.path) < LocaleRank(path)})

C13_TotalIsSum == totalSize = SumSizes(selectedFiles)

\* a point where a truncated record counts with its truncated length, not the
\* original size, and a later candidate has been rejected
C13_Witness ==
  /\ totalSize > 0
  /\ \E j, k \in 1..Len(calls) :
       /\ j < k
       /\ calls[j].outcome = "truncated"
       /\ calls[j].size # calls[j].after - calls[j].before
       /\ calls[k].outcome = "rejected"

\* ------------------------------------------------------------------------
\* C14
\* ------------------------------------------------------------------------
\* the truncated copy of an input file
TruncatedCopy(f) ==
  LET text == Substring0(f.content, MAX_FILE_SIZE) \o MarkerText
  IN [f EXCEPT !.content = text, !.size = StrLength(text)]

\* the output is a sub-selection of the input
SubSelection ==
  /\ \A k \in 1..Len(selectedFiles) :
       \E f \in Range(files) :
         /\ f.path = selectedFiles[k].path
         /\ selectedFiles[k] = f
              \/ (f.size > MAX_FILE_SIZE /\ selectedFiles[k] = TruncatedCopy(f))
  /\ Len(selectedFiles) <= Len(files)
  /\ files = << >> => selectedFiles = << >>

\* passes still to run, the current one included
PassesLeft ==
  CASE pc = "p1" -> 5 [] pc = "p2" -> 4 [] pc = "p3" -> 3 [] pc = "p4" -> 2
    [] pc = "fb" -> 1 [] OTHER -> 0

\* a bound on the loop iterations the run can still make
StepsLeft == PassesLeft * (Len(files) + 2) + (Len(cand) + 1 - idx)

\* a run that has not returned is inside one of the five loops, at a
\* candidate or at the loop's exit, where the loop body or exit can run
InsideALoop ==
  ~Returned => pc \in TierPasses \cup {"fb"} /\ idx \in 1..(Len(cand) + 1)

\* C14: the function always returns (every step of a run brings the return
\* nearer and no step fails), and what it returns is a sub-selection of its
\* input: every output record has the path of an input file and is that
\* file unchanged or its truncated copy; the output is never longer than
\* the input, and an empty input gives an empty output.
C14_SubSelection ==
  /\ [](SubSelection /\ InsideALoop)
  /\ [][run' = run => StepsLeft' < StepsLeft]_vars

\* a returned proper sub-selection holding the truncated copy of an input file
C14_Witness ==
  /\ Returned /\ run = 1
  /\ 0 < Len(selectedFiles) /\ Len(selectedFiles) < Len(files)
  /\ \E k \in 1..Len(selectedFiles) :
       /\ selectedFiles[k] \notin Range(files)
       /\ selectedFiles[k] = TruncatedCopy(InputFile(selectedFiles[k].path))

\* ------------------------------------------------------------------------
\* Vocabulary of the chunkContent properties
\* ------------------------------------------------------------------------
Chunked == pc = "chunked"

\* the rendered blocks of the files, concatenated
RECURSIVE ConcatBlocks(_)
ConcatBlocks(fs) ==
  IF fs = << >> THEN << >> ELSE fileContent(Head(fs)) \o ConcatBlocks(Tail(fs))

\* the contents of the chunks, concatenated
RECURSIVE ConcatContents(_)
ConcatContents(cs) ==
  IF cs = << >> THEN << >> ELSE Head(cs).content \o ConcatContents(Tail(cs))

RECURSIVE SumFileCounts(_)
SumFileCounts(cs) ==
  IF cs = << >> THEN 0 ELSE Head(cs).fileCount + SumFileCounts(Tail(cs))

RECURSIVE SumTotalSizes(_)
SumTotalSizes(cs) ==
  IF cs = << >> THEN 0 ELSE Head(cs).totalSize + SumTotalSizes(Tail(cs))

\* the files the counts assign to chunk k: the next fileCount files of the
\* input after those of the chunks before it
FilesOfChunk(k) ==
  LET first == SumFileCounts(SubSeq(chunks, 1, k - 1)) + 1
  IN SubSeq(files, first, first + chunks[k].fileCount - 1)

\* the chunks that hold input file i
ChunksOfFile(i) ==
  {k \in 1..Len(chunks) :
     LET first == SumFileCounts(SubSeq(chunks, 1, k - 1)) + 1
     IN first <= i /\ i < first + chunks[k].fileCount}

\* the rendered block of the file alone is longer than a chunk
LongBlock(f) == StrLength(fileContent(f)) > maxChunkSize

\* ------------------------------------------------------------------------
\* C15
\* ------------------------------------------------------------------------
\* C15: chunkContent assigns each input file to exactly one chunk, in input
\* order: the fileCount values of the returned chunks sum to the input
\* length, every chunk's content is the concatenation of the rendered blocks
\* of its files, and the concatenation of all chunks' content equals the
\* concatenation of the rendered blocks of the input files in input order.
C15_CoverageAndOrder ==
  Chunked =>
    /\ SumFileCounts(chunks) = Len(files)
    /\ ConcatContents(chunks) = ConcatBlocks(files)
    /\ \A i \in 1..Len(files) : Cardinality(ChunksOfFile(i)) = 1
    /\ \A k \in 1..Len(chunks) :
         chunks[k].content = ConcatBlocks(FilesOfChunk(k))

\* a return of two chunks for three files: one file, then two
C15_Witness ==
  /\ Chunked /\ Len(files) = 3 /\ Len(chunks) = 2
  /\ chunks[1].fileCount = 1 /\ chunks[2].fileCount = 2

\* ------------------------------------------------------------------------
\* C16
\* ------------------------------------------------------------------------
\* C16: chunkContent never emits an empty chunk: every chunk has fileCount
\* >= 1 and non-empty content, and zero chunks are returned if and only if
\* the input is empty.
C16_NoEmptyChunk ==
  /\ \A k \in 1..Len(chunks) :
       chunks[k].fileCount >= 1 /\ StrLength(chunks[k].content) > 0
  /\ Chunked => (chunks = << >> <=> files = << >>)

\* a return where the first block alone is longer than a chunk, so that the
\* flush test was reached with an empty buffer
C16_Witness ==
  /\ Chunked /\ Len(files) >= 2 /\ LongBlock(files[1])
  /\ Len(chunks) >= 2

\* ------------------------------------------------------------------------
\* C17
\* ------------------------------------------------------------------------
\* C17: a file whose rendered block alone is longer than the chunk ceiling
\* ends up unsplit in exactly one chunk, which holds only that file
\* (fileCount = 1 and the block as content), wherever it stands in the
\* input; and chunkContent terminates.
C17_LongFileAlone ==
  /\ [](Chunked =>
          \A i \in 1..Len(files) :
            LongBlock(files[i]) =>
              /\ Cardinality(ChunksOfFile(i)) = 1
              /\ \A k \in ChunksOfFile(i) :
                   /\ chunks[k].fileCount = 1
                   /\ chunks[k].content = fileContent(files[i]))
  /\ <>Chunked

\* a return where a file longer than a chunk stood between two shorter ones
C17_Witness ==
  /\ Chunked /\ Len(files) = 3
  /\ ~LongBlock(files[1]) /\ LongBlock(files[2]) /\ ~LongBlock(files[3])
  /\ Len(chunks) = 3

\* ------------------------------------------------------------------------
\* C18
\* ------------------------------------------------------------------------
\* C18: the totalSize of every returned chunk is the sum of the size fields
\* of the files assigned to it (not the length of their rendered blocks), so
\* the totalSize values of all chunks sum to the sum of size over the input.
C18_TotalSize ==
  Chunked =>
    /\ \A k \in 1..Len(chunks) : chunks[k].totalSize = SumSizes(FilesOfChunk(k))
    /\ SumTotalSizes(chunks) = SumSizes(files)

\* a return of two chunks, the second of two files, whose sizes differ from
\* the lengths of their texts
C18_Witness ==
  /\ Chunked /\ Len(chunks) = 2 /\ chunks[2].fileCount = 2
  /\ chunks[2].totalSize > 0
  /\ chunks[2].totalSize # StrLength(chunks[2].content)
  /\ \A f \in Range(FilesOfChunk(2)) : f.size # StrLength(f.content)

\* ------------------------------------------------------------------------
\* Vocabulary of the HuggingFace client properties
\* ------------------------------------------------------------------------
Analyzed == pc = "analyzed"

\* what the attempts made so far must have left in responses
RECURSIVE RecordedFor(_)
RecordedFor(as) ==
  IF as = << >> THEN << >>
  ELSE (IF Head(as).raised THEN <<Placeholder>>
        ELSE IF Head(as).value = "" THEN << >>
        ELSE <<Head(as).value>>)
       \o RecordedFor(Tail(as))

\* the requests sent for chunk c, in order
RequestsOf(c) == FilterSeq(requests, {r \in Range(requests) : r.chunk = c})

\* the wait a 503 response announces, 20 seconds when it names none
EstimatedWait(r) == IF r.estimated_time = 0 THEN 20 ELSE r.estimated_time

RetryWaitLimit == 30

\* ------------------------------------------------------------------------
\* C19
\* ------------------------------------------------------------------------
\* C19: analyzeWithHuggingFace attempts every chunk, in order, exactly once
\* whatever happened to the chunks before it, never propagates an error (it
\* is either in its loop or has returned), and records the placeholder text
\* for each chunk whose attempt failed (and the text, when there is one, for
\* the others).
C19_FailureIsolation ==
  /\ pc \in {"analyze", "post", "retry", "analyzed"}
  /\ Len(attempts) = idx - 1
  /\ \A k \in 1..Len(attempts) : attempts[k].chunk = k
  /\ Analyzed => Len(attempts) = Len(chunks)
  /\ responses = RecordedFor(attempts)
  /\ Cardinality({k \in 1..Len(responses) : responses[k] = Placeholder})
       = Cardinality({k \in 1..Len(attempts) : attempts[k].raised})

\* a return after the first chunk failed and the second was analysed
C19_Witness ==
  /\ Analyzed /\ Len(chunks) = 2
  /\ attempts[1].raised /\ ~attempts[2].raised
  /\ responses = <<Placeholder, "generated text">>
  /\ \E k \in 1..Len(requests) : requests[k].chunk = 2

\* ------------------------------------------------------------------------
\* C20
\* ------------------------------------------------------------------------
\* C20: for one prompt at most two requests are sent; the second is sent
\* only after the first failed with status 503 and an estimated wait under
\* 30 seconds, and is itself never retried: its failure is raised; a first
\* failure with 429, 401 or 403, and a missing API key, cause no retry and
\* are raised to the caller.
C20_RetryPolicy ==
  \A c \in 1..Len(chunks) :
    LET rs == RequestsOf(c)
    IN /\ Len(rs) <= 2
       /\ Len(rs) >= 1 => ~rs[1].retry
       /\ Len(rs) = 2
            => /\ rs[2].retry
               /\ rs[1].status = 503
               /\ EstimatedWait(rs[1]) < RetryWaitLimit
       /\ c <= Len(attempts)
            => /\ ~apiKey => rs = << >> /\ attempts[c].raised
               /\ (rs # << >> /\ rs[1].status \in {429, 401, 403})
                    => Len(rs) = 1 /\ attempts[c].raised
               /\ (Len(rs) = 2 /\ rs[2].status # 200) => attempts[c].raised

\* two finished calls: one whose retry was answered 503 with a short wait
\* again and was not retried, one whose first request was rate-limited
C20_Witness ==
  /\ Len(attempts) = 2 /\ attempts[1].raised /\ attempts[2].raised
  /\ Len(RequestsOf(1)) = 2
  /\ RequestsOf(1)[2].status = 503 /\ EstimatedWait(RequestsOf(1)[2]) < RetryWaitLimit
  /\ Len(RequestsOf(2)) = 1 /\ RequestsOf(2)[1].status = 429

\* ------------------------------------------------------------------------
\* C21
\* ------------------------------------------------------------------------
\* C21: every returned chunk that holds two or more files has content of
\* length at most the chunk ceiling; only a chunk of a single file may be
\* longer.
C21_MultiFileChunkBounded ==
  \A k \in 1..Len(chunks) :
    /\ chunks[k].fileCount >= 2 => StrLength(chunks[k].content) <= maxChunkSize
    /\ StrLength(chunks[k].content) > maxChunkSize => chunks[k].fileCount = 1

\* a return with a chunk of two files filled exactly to the ceiling and a
\* chunk of one file that is longer than the ceiling
C21_Witness ==
  /\ Chunked
  /\ \E k \in 1..Len(chunks) :
       chunks[k].fileCount = 2 /\ StrLength(chunks[k].content) = maxChunkSize
  /\ \E k \in 1..Len(chunks) :
       chunks[k].fileCount = 1 /\ StrLength(chunks[k].content) > maxChunkSize

\* ------------------------------------------------------------------------
\* C22
\* ------------------------------------------------------------------------
\* C22: a chunk boundary is placed only where it is needed: for every two
\* consecutive chunks, the content length of the earlier one plus the
\* rendered length of the first file of the later one exceeds the ceiling.
\* So three files of equal length, two of which fit together but not three,
\* give two chunks: files 1-2, then file 3.
C22_GreedyPacking ==
  /\ \A k \in 1..(Len(chunks) - 1) :
       StrLength(chunks[k].content)
         + StrLength(fileContent(Head(FilesOfChunk(k + 1)))) > maxChunkSize
  /\ \A k \in 1..Len(chunks) :
       (~Chunked /\ k = Len(chunks) /\ currentFileCount > 0)
         => StrLength(chunks[k].content)
              + StrLength(fileContent(files[idx - currentFileCount])) > maxChunkSize
  /\ (/\ Chunked /\ Len(files) = 3
      /\ \A i \in 1..3 : StrLength(fileContent(files[i]))
                             = StrLength(fileContent(files[1]))
      /\ 2 * StrLength(fileContent(files[1])) <= maxChunkSize
      /\ 3 * StrLength(fileContent(files[1])) > maxChunkSize)
       => /\ Len(chunks) = 2
          /\ chunks[1].fileCount = 2 /\ chunks[2].fileCount = 1

\* the return for three files of equal length, two of which fill a chunk to
\* the ceiling exactly
C22_Witness ==
  /\ Chunked /\ Len(files) = 3 /\ Len(chunks) = 2
  /\ \A i \in 1..3 : 2 * StrLength(fileContent(files[i])) = maxChunkSize
  /\ chunks[1].content = fileContent(files[1]) \o fileContent(files[2])
  /\ chunks[2].content = fileContent(files[3])

\* ------------------------------------------------------------------------
\* C23
\* ------------------------------------------------------------------------
\* C23: within one pass a rejected candidate stops the pass: after a
\* candidate has been rejected for exceeding the aggregate cap, no later
\* candidate of that pass is passed to addFile, let alone appended, during
\* that pass, even one small enough for the budget that remains.
C23_RejectionStopsPass ==
  \A i, j \in 1..Len(calls) :
    (i < j /\ calls[i].outcome = "rejected") => calls[j].pass # calls[i].pass

\* a run whose documentation pass rejected a candidate and left alone a
\* later documentation file that fitted the remaining budget
C23_Witness ==
  /\ Returned /\ run = 1
  /\ \E i \in 1..Len(calls) :
       /\ calls[i].pass = "p1" /\ calls[i].outcome = "rejected"
       /\ \E m, n \in 1..Len(priority1(files)) :
            /\ m < n
            /\ priority1(files)[m].path = calls[i].path
            /\ calls[i].before + priority1(files)[n].size <= MAX_TOTAL_CONTENT
            /\ \A j \in 1..Len(calls) :
                 calls[j].pass = "p1" => calls[j].path # priority1(files)[n].path

\* ------------------------------------------------------------------------
\* C24
\* ------------------------------------------------------------------------
\* 1 for a documentation name, 2 for a configuration name, 3 for an
\* entry-point name, 4 for any other
NameTier(f) ==
  IF IsPriority1(f) THEN 1 ELSE IF IsPriority2(f) THEN 2
  ELSE IF IsEntryPoint(f) THEN 3 ELSE 4

NamedTiers == {1, 2, 3}

\* the pass that selects files of the name tier
PassOfTier(t) == IF t = 1 THEN "p1" ELSE IF t = 2 THEN "p2" ELSE "p3"

\* C24 (as claimed): in the output every documentation-named file comes
\* before every configuration-named file, and every configuration-named
\* file before every entry-point-named file.
C24_TierOrder ==
  Returned =>
    \A j, k \in 1..Len(selectedFiles) :
      (/\ NameTier(selectedFiles[j]) \in NamedTiers
       /\ NameTier(selectedFiles[k]) \in NamedTiers
       /\ NameTier(selectedFiles[j]) < NameTier(selectedFiles[k])) => j < k

\* C24 (amended): the documentation, configuration and entry-point passes
\* append only files of their own name set, in this order of passes, so the
\* files they append are ordered by tier.  A file with a documentation or
\* configuration name stands after a file of a later name tier only when
\* its own pass stopped before reaching it and the source-directory or
\* fallback pass appended it.
C24_TierOrderOfNamePasses ==
  /\ \A k \in 1..Len(AppendedCalls) :
       \A t \in NamedTiers :
         AppendedCalls[k].pass = PassOfTier(t) => NameTier(selectedFiles[k]) = t
  /\ \A j, k \in 1..Len(selectedFiles) :
       (/\ j < k
        /\ NameTier(selectedFiles[j]) \in NamedTiers
        /\ NameTier(selectedFiles[k]) \in NamedTiers
        /\ NameTier(selectedFiles[k]) < NameTier(selectedFiles[j]))
         => /\ AppendedCalls[k].pass \in {"p4", "fb"}
            /\ \E i \in 1..Len(calls) :
                 /\ calls[i].pass = PassOfTier(NameTier(selectedFiles[k]))
                 /\ ~calls[i].ok

\* a run that returned a documentation file after a configuration file, the
\* fallback having appended it; the three name passes appended files too
C24_Witness ==
  /\ Returned /\ run = 1
  /\ \E j, k \in 1..Len(selectedFiles) :
       /\ j < k
       /\ NameTier(selectedFiles[j]) = 2 /\ NameTier(selectedFiles[k]) = 1
       /\ AppendedCalls[j].pass = "p2" /\ AppendedCalls[k].pass = "fb"

\* ------------------------------------------------------------------------
\* C25
\* ------------------------------------------------------------------------
NoOversizedInput == \A f \in Range(files) : f.size <= MAX_FILE_SIZE

\* C25: when no input file is larger than the per-file cap, the aggregate
\* cap is a hard bound: at every point of the run the running total, and so
\* the sum of the sizes of the output, is at most MAX_TOTAL_CONTENT, a
\* candidate being appended only if the running total plus its size does
\* not exceed the cap.
C25_HardCapWithoutOversized ==
  NoOversizedInput =>
    /\ totalSize <= MAX_TOTAL_CONTENT
    /\ SumSizes(selectedFiles) <= MAX_TOTAL_CONTENT
    /\ \A k \in 1..Len(calls) :
         /\ calls[k].outcome # "truncated"
         /\ Appended(calls[k])
              <=> calls[k].before + calls[k].size <= MAX_TOTAL_CONTENT

\* a run without oversized input that filled the budget exactly and then
\* rejected a candidate
C25_Witness ==
  /\ Returned /\ run = 1 /\ NoOversizedInput
  /\ totalSize = MAX_TOTAL_CONTENT
  /\ Len(selectedFiles) >= 2
  /\ \E k \in 1..Len(calls) : calls[k].outcome = "rejected"

====
